---- MODULE Spec2Model ----
(***************************************************************************)
(* Model of the CSV importer of college applications                       *)
(* (college_applications.py) over the Django models of core/models.py.     *)
(*                                                                         *)
(* Strings are sequences of one-character strings, so that strip() and     *)
(* lower() are computed and not assumed.  A table is the sequence of its   *)
(* rows in insertion order and a row's primary key is its position (no     *)
(* row is ever deleted).  A timestamp is a reading of the counter clock;   *)
(* the SQL NULL of archived_at is NullTime.                                *)
(***************************************************************************)
EXTENDS Integers, Sequences, FiniteSets, TLC

VARIABLES
    db,                     \* committed + uncommitted rows of the four tables
    clock,                  \* timezone.now()
    pc,                     \* "idle" | "loop": position inside import_applications_from_csv
    file,                   \* the DataFrame pd.read_csv returned for the current/last run
    df,                     \* the cleaned, deduplicated DataFrame of the current/last run
    i,                      \* position of df.iterrows()
    district,               \* pk of the run's District
    created, updated, archived,
    existing_applications,  \* set of (student.id, college.id) touched by the run
    resolved,               \* history: the (student.id, college.id) each processed row resolved to
    txn,                    \* the tables as they were when transaction.atomic() was entered
    pre,                    \* history: the tables before the run started
    outcome,                \* history: how the last run ended
    prevFile, prevOutcome,  \* history: the run before the last one
    runs, rowsRead, faults  \* counters that bound the model

vars == <<db, clock, pc, file, df, i, district, created, updated, archived,
          existing_applications, resolved, txn, pre, outcome, prevFile,
          prevOutcome, runs, rowsRead, faults>>

---------------------------------------------------------------------------
(* Bounds of the model *)
MaxRuns == 3           \* calls of import_applications_from_csv
MaxTotalRows == 3      \* rows of all the files read, together
MaxFaults == 1         \* files without a required column, failures of the database
MaxCsvRows == 2        \* rows of one file of the attending column

---------------------------------------------------------------------------
(* Python values *)
NaN == <<"NaN">>            \* pandas' missing cell
None == <<"None">>          \* Python None / SQL NULL of a text or boolean column
PyTrue == <<"True">>
PyFalse == <<"False">>
NullTime == 0               \* SQL NULL of a DateTimeField

Range(s) == {s[k] : k \in DOMAIN s}
Min(S) == CHOOSE x \in S : \A y \in S : x <= y
Max(S) == CHOOSE x \in S : \A y \in S : x >= y

ToLower ==
    [c \in {"A","B","C","D","E","F","G","H","I","J","K","L","M","N","O","P",
            "Q","R","S","T","U","V","W","X","Y","Z"} |->
       CASE c = "A" -> "a" [] c = "B" -> "b" [] c = "C" -> "c" [] c = "D" -> "d"
         [] c = "E" -> "e" [] c = "F" -> "f" [] c = "G" -> "g" [] c = "H" -> "h"
         [] c = "I" -> "i" [] c = "J" -> "j" [] c = "K" -> "k" [] c = "L" -> "l"
         [] c = "M" -> "m" [] c = "N" -> "n" [] c = "O" -> "o" [] c = "P" -> "p"
         [] c = "Q" -> "q" [] c = "R" -> "r" [] c = "S" -> "s" [] c = "T" -> "t"
         [] c = "U" -> "u" [] c = "V" -> "v" [] c = "W" -> "w" [] c = "X" -> "x"
         [] c = "Y" -> "y" [] c = "Z" -> "z"]

\* str.lower()
lower(s) == [k \in DOMAIN s |-> IF s[k] \in DOMAIN ToLower THEN ToLower[s[k]] ELSE s[k]]

IsSpace(c) == c \in {" ", "\t"}

\* str.strip()
strip(s) ==
    LET keep == {k \in DOMAIN s : ~IsSpace(s[k])}
    IN  IF keep = {} THEN <<>> ELSE SubSeq(s, Min(keep), Max(keep))

\* pd.isna(value): true of NaN and of None
isna(value) == value \in {NaN, None}

\* Series.fillna("")
fillna(value) == IF isna(value) THEN <<>> ELSE value

\* Series.astype(str) / str(value): a missing cell becomes the text "nan"
astype_str(value) == IF isna(value) THEN <<"n","a","n">> ELSE value

\* `x or None` on a string
or_None(s) == IF s = <<>> THEN None ELSE s

---------------------------------------------------------------------------
(* Column names *)
student_number == <<"s","t","u","d","e","n","t","_","n","u","m","b","e","r">>
college_name == <<"c","o","l","l","e","g","e","_","n","a","m","e">>
ceeb_code == <<"c","e","e","b","_","c","o","d","e">>
application_type == <<"a","p","p","l","i","c","a","t","i","o","n","_","t","y","p","e">>
application_result == <<"a","p","p","l","i","c","a","t","i","o","n","_","r","e","s","u","l","t">>
attending == <<"a","t","t","e","n","d","i","n","g">>

required_columns ==
    {student_number, college_name, ceeb_code, application_type, application_result, attending}

clean_column_names(columns) == [k \in DOMAIN columns |-> lower(strip(columns[k]))]

\* missing_columns with a fault: the loop over required_columns stops at the first column it misses
missing_columns_FirstOnly(columns) ==
    LET all == {col \in required_columns : col \notin Range(columns)}
    IN  IF all = {} THEN {} ELSE {CHOOSE col \in all : TRUE}

missing_columns(columns) == {col \in required_columns : col \notin Range(columns)}

---------------------------------------------------------------------------
(* parse_attending *)
parse_attending(value) ==
    IF isna(value) THEN None
    ELSE LET s == lower(strip(astype_str(value)))
         IN  IF s \in {<<"1">>, <<"t","r","u","e">>, <<"y","e","s">>} THEN PyTrue
             ELSE IF s \in {<<"0">>, <<"f","a","l","s","e">>, <<"n","o">>} THEN PyFalse
             ELSE None

nan_to_none(value) == IF isna(value) THEN None ELSE value

---------------------------------------------------------------------------
(* Cleaning of the rows and deduplication *)
CleanRow(r) ==
    [student_number     |-> strip(astype_str(r.student_number)),
     ceeb_code          |-> strip(astype_str(fillna(r.ceeb_code))),
     college_name       |-> strip(astype_str(fillna(r.college_name))),
     application_result |-> lower(strip(astype_str(fillna(r.application_result)))),
     application_type   |-> strip(astype_str(fillna(r.application_type))),
     attending_parsed   |-> parse_attending(r.attending)]

\* college_key with a fault: the name is not lower-cased
college_key_CaseSensitive(r) == IF r.ceeb_code # <<>> THEN r.ceeb_code ELSE r.college_name

college_key(r) == IF r.ceeb_code # <<>> THEN r.ceeb_code ELSE lower(r.college_name)

DedupKey(r) == <<r.student_number, college_key(r)>>

\* KeptPositions with a fault: drop_duplicates(keep="first")
KeptPositions_First(rows) ==
    {k \in DOMAIN rows : \A j \in DOMAIN rows : j < k => DedupKey(rows[j]) # DedupKey(rows[k])}

\* positions that drop_duplicates(keep="last") retains
KeptPositions(rows) ==
    {k \in DOMAIN rows : \A j \in DOMAIN rows : j > k => DedupKey(rows[j]) # DedupKey(rows[k])}

RECURSIVE SeqOfPositions(_, _)
SeqOfPositions(rows, S) ==
    IF S = {} THEN <<>>
    ELSE <<rows[Min(S)]>> \o SeqOfPositions(rows, S \ {Min(S)})

drop_duplicates(rows) == SeqOfPositions(rows, KeptPositions(rows))

CleanFrame(rows) == drop_duplicates([k \in DOMAIN rows |-> CleanRow(rows[k])])

---------------------------------------------------------------------------
(* The tables *)
EmptyDb == [districts |-> <<>>, students |-> <<>>, colleges |-> <<>>, applications |-> <<>>]

DistrictName == <<"S","c","h","o","o","L","i","n","k","s">>

\* Manager.get_or_create: the result of the lookup-then-insert.
\* error is "" or the name of the exception raised.
Found(d, id) == [db |-> d, id |-> id, created |-> FALSE, error |-> ""]
Made(d, id) == [db |-> d, id |-> id, created |-> TRUE, error |-> ""]
Raised(d, e) == [db |-> d, id |-> 0, created |-> FALSE, error |-> e]

\* get_or_create with a fault: a row that is found is overwritten with the values
\* of the call, as update_or_create would
get_or_create_Overwrite(d, table, matches, row) ==
    IF matches = {} THEN Made([d EXCEPT ![table] = Append(@, row)], Len(d[table]) + 1)
    ELSE IF Cardinality(matches) = 1
    THEN LET k == CHOOSE m \in matches : TRUE
         IN  Found([d EXCEPT ![table][k] = row], k)
    ELSE Raised(d, "MultipleObjectsReturned")

get_or_create(d, table, matches, row) ==
    IF matches = {} THEN Made([d EXCEPT ![table] = Append(@, row)], Len(d[table]) + 1)
    ELSE IF Cardinality(matches) = 1 THEN Found(d, CHOOSE k \in matches : TRUE)
    ELSE Raised(d, "MultipleObjectsReturned")

District_get_or_create(d, name) ==
    get_or_create(d, "districts",
                  {k \in DOMAIN d.districts : d.districts[k].name = name},
                  [name |-> name])

Student_get_or_create(d, dist, number) ==
    get_or_create(d, "students",
                  {k \in DOMAIN d.students :
                      d.students[k].district = dist /\ d.students[k].student_number = number},
                  [district |-> dist, student_number |-> number])

\* get_or_create_college with a fault: a row with a code is looked up by code and name
get_or_create_college_ByCodeAndName(d, ceeb0, cname0) ==
    LET ceeb == strip(ceeb0)
        cname == strip(cname0)
    IN  IF ceeb # <<>>
        THEN get_or_create(d, "colleges",
                           {k \in DOMAIN d.colleges :
                               d.colleges[k].ceeb_code = ceeb /\ d.colleges[k].name = cname},
                           [name |-> cname, ceeb_code |-> ceeb])
        ELSE get_or_create(d, "colleges",
                           {k \in DOMAIN d.colleges : d.colleges[k].name = cname},
                           [name |-> cname, ceeb_code |-> <<>>])

\* get_or_create_college with a fault: a code that is new is given to the College
\* of that name that has no code yet
get_or_create_college_AdoptNameless(d, ceeb0, cname0) ==
    LET ceeb == strip(ceeb0)
        cname == strip(cname0)
        byCode == {k \in DOMAIN d.colleges : d.colleges[k].ceeb_code = ceeb}
        nameless == {k \in DOMAIN d.colleges :
                        d.colleges[k].ceeb_code = <<>> /\ d.colleges[k].name = cname}
    IN  IF ceeb # <<>> /\ byCode = {} /\ nameless # {}
        THEN LET k == CHOOSE m \in nameless : TRUE
             IN  Found([d EXCEPT !.colleges[k].ceeb_code = ceeb], k)
        ELSE IF ceeb # <<>>
        THEN get_or_create(d, "colleges", byCode, [name |-> cname, ceeb_code |-> ceeb])
        ELSE get_or_create(d, "colleges",
                           {k \in DOMAIN d.colleges : d.colleges[k].name = cname},
                           [name |-> cname, ceeb_code |-> <<>>])

get_or_create_college(d, ceeb0, cname0) ==
    LET ceeb == strip(ceeb0)
        cname == strip(cname0)
    IN  IF ceeb # <<>>
        THEN get_or_create(d, "colleges",
                           {k \in DOMAIN d.colleges : d.colleges[k].ceeb_code = ceeb},
                           [name |-> cname, ceeb_code |-> ceeb])
        ELSE get_or_create(d, "colleges",
                           {k \in DOMAIN d.colleges : d.colleges[k].name = cname},
                           [name |-> cname, ceeb_code |-> <<>>])

\* AppsOfPair with a fault: the pair is looked for (and held unique) among the active rows only
AppsOfPair_ActiveOnly(apps, student, college) ==
    {k \in DOMAIN apps :
        apps[k].student = student /\ apps[k].college = college /\ ~apps[k].is_archived}

\* the rows of one (student, college) pair: what the lookup of update_or_create and
\* the unique_together constraint both select
AppsOfPair(apps, student, college) ==
    {k \in DOMAIN apps : apps[k].student = student /\ apps[k].college = college}

\* ApplyDefaults with a fault: the archive flag and timestamp are left out of the defaults
ApplyDefaults_KeepArchive(app, defaults, now) ==
    [app EXCEPT !.application_result = defaults.application_result,
                !.application_type = defaults.application_type,
                !.attending = defaults.attending,
                !.updated_on = now]

\* update_or_create on a row that exists: setattr of every default, then save()
\* (updated_on is auto_now)
ApplyDefaults(app, defaults, now) ==
    [app EXCEPT !.application_result = defaults.application_result,
                !.application_type = defaults.application_type,
                !.attending = defaults.attending,
                !.is_archived = defaults.is_archived,
                !.archived_at = defaults.archived_at,
                !.updated_on = now]

\* update_or_create on a row that does not exist: create(student=, college=, **defaults)
NewApplication(student, college, defaults, now) ==
    [student |-> student, college |-> college,
     application_result |-> defaults.application_result,
     application_type |-> defaults.application_type,
     attending |-> defaults.attending,
     is_archived |-> defaults.is_archived,
     archived_at |-> defaults.archived_at,
     created_on |-> now, updated_on |-> now]

\* CollegeApplication.objects.update_or_create(student=, college=, defaults=)
update_or_create(d, student, college, defaults, now) ==
    LET apps == d.applications
        matches == AppsOfPair(apps, student, college)
    IN  IF matches = {}
        THEN Made([d EXCEPT !.applications =
                      Append(@, NewApplication(student, college, defaults, now))],
                  Len(apps) + 1)
        ELSE IF Cardinality(matches) = 1
        THEN LET k == CHOOSE m \in matches : TRUE
             IN  Found([d EXCEPT !.applications[k] = ApplyDefaults(@, defaults, now)], k)
        ELSE Raised(d, "MultipleObjectsReturned")

Defaults(row) ==
    [application_result |-> or_None(row.application_result),
     application_type   |-> or_None(row.application_type),
     attending          |-> nan_to_none(row.attending_parsed),
     is_archived        |-> FALSE,
     archived_at        |-> NullTime]

\* one pass of the body of `for _, row in df.iterrows()`
Upsert(d, dist, row, now) ==
    LET s == Student_get_or_create(d, dist, row.student_number)
        c == get_or_create_college(s.db, row.ceeb_code, row.college_name)
        a == update_or_create(c.db, s.id, c.id, Defaults(row), now)
    IN  IF s.error # "" THEN [db |-> d, error |-> s.error, pair |-> <<0, 0>>, created_new |-> FALSE]
        ELSE IF c.error # "" THEN [db |-> d, error |-> c.error, pair |-> <<0, 0>>, created_new |-> FALSE]
        ELSE IF a.error # "" THEN [db |-> d, error |-> a.error, pair |-> <<0, 0>>, created_new |-> FALSE]
        ELSE [db |-> a.db, error |-> "", pair |-> <<s.id, c.id>>, created_new |-> a.created]

\* ActiveOfDistrict with a fault: the applications of every district are selected
ActiveOfDistrict_AllDistricts(d, dist) ==
    {k \in DOMAIN d.applications : ~d.applications[k].is_archived}

\* ActiveOfDistrict with a fault: the archived applications are not filtered out
ActiveOfDistrict_IncludingArchived(d, dist) ==
    {k \in DOMAIN d.applications : d.students[d.applications[k].student].district = dist}

\* CollegeApplication.objects.filter(student__district=district, is_archived=False)
ActiveOfDistrict(d, dist) ==
    {k \in DOMAIN d.applications :
        /\ d.students[d.applications[k].student].district = dist
        /\ ~d.applications[k].is_archived}

\* to_archive_ids with a fault: an application is kept when its student is in the file, whatever the college
to_archive_ids_ByStudent(d, dist, touched) ==
    {k \in ActiveOfDistrict(d, dist) :
        d.applications[k].student \notin {p[1] : p \in touched}}

to_archive_ids(d, dist, touched) ==
    {k \in ActiveOfDistrict(d, dist) :
        <<d.applications[k].student, d.applications[k].college>> \notin touched}

\* ArchiveUpdate with a fault: the flag is set, the timestamp is not
ArchiveUpdate_FlagOnly(apps, ids, now) ==
    [k \in DOMAIN apps |->
        IF k \in ids THEN [apps[k] EXCEPT !.is_archived = TRUE] ELSE apps[k]]

\* filter(id__in=to_archive_ids).update(is_archived=True, archived_at=now)
ArchiveUpdate(apps, ids, now) ==
    [k \in DOMAIN apps |->
        IF k \in ids THEN [apps[k] EXCEPT !.is_archived = TRUE, !.archived_at = now]
        ELSE apps[k]]

---------------------------------------------------------------------------
(* The inputs: the DataFrame that pd.read_csv hands to the importer.  An empty
   cell of the file is NaN; the other cells are the text of the file: the
   columns of these files hold text that is no number, so pandas leaves them
   as text (the columns it reads as numbers are the matter of read_csv below). *)
P1 == [application_result |-> <<" ","A">>, application_type |-> <<"E"," ">>,
       attending |-> <<"Y","e","s">>]
P2 == [application_result |-> NaN, application_type |-> NaN, attending |-> <<"0">>]

RawRow(sn, cb, cn, p) ==
    [student_number |-> sn, ceeb_code |-> cb, college_name |-> cn,
     application_result |-> p.application_result,
     application_type |-> p.application_type, attending |-> p.attending]

RawRows ==
    {RawRow(<<"1">>, <<"A","7">>, <<"X">>, P1),    \* a college with a CEEB code
     RawRow(<<"1">>, <<"A","7">>, <<"X">>, P2),    \* the same application, other values
     RawRow(<<"1">>, <<" ","A","7">>, <<"x">>, P1),\* the same code under another name
     RawRow(<<"1">>, <<"A","8">>, <<"X">>, P1),    \* another code under the same name
     RawRow(<<"1">>, NaN, <<"X"," ">>, P1),        \* no code: the college goes by its name
     RawRow(<<"1">>, NaN, <<"x">>, P2),            \* the name in another case
     RawRow(<<" ","2">>, <<"A","7">>, <<"X">>, P2)}\* another student, the same college

Header ==
    <<student_number, college_name, ceeb_code, application_type, application_result, attending>>
\* the same columns as a district may spell them, with one column nobody asked for
SloppyHeader ==
    <<student_number, <<"C","o","l","l","e","g","e","_","N","a","m","e">>,
      <<" ","C","E","E","B","_","C","O","D","E"," ">>, application_type,
      application_result, attending, <<"n","o","t","e","s">>>>
NoCeebHeader ==
    <<student_number, college_name, application_type, application_result, attending>>
NoCeebNoAttendingHeader ==
    <<student_number, college_name, application_type, application_result>>

GoodHeaders == {Header, SloppyHeader}
BadHeaders == {NoCeebHeader, NoCeebNoAttendingHeader}

NoFile == [columns |-> <<>>, rows |-> <<>>]
NoOutcome == [status |-> "none", error |-> "", missing |-> {}, found |-> <<>>,
              total_processed |-> 0, created |-> 0, updated |-> 0, archived |-> 0]

Succeeded(s) ==
    [NoOutcome EXCEPT !.status = "ok", !.total_processed = s.total_processed,
                      !.created = s.created, !.updated = s.updated, !.archived = s.archived]
Failed(e) == [NoOutcome EXCEPT !.status = "error", !.error = e]
\* ValueError(f"CSV missing required columns: {missing_columns}. Found columns: {list(df.columns)}")
MissingColumnsError(missing, found) ==
    [NoOutcome EXCEPT !.status = "error", !.error = "ValueError",
                      !.missing = missing, !.found = found]

---------------------------------------------------------------------------
Init ==
    /\ db = EmptyDb
    /\ clock = 1
    /\ pc = "idle"
    /\ file = NoFile
    /\ df = <<>>
    /\ i = 1
    /\ district = 0
    /\ created = 0 /\ updated = 0 /\ archived = 0
    /\ existing_applications = {}
    /\ resolved = <<>>
    /\ txn = EmptyDb
    /\ pre = EmptyDb
    /\ outcome = NoOutcome
    /\ prevFile = NoFile
    /\ prevOutcome = NoOutcome
    /\ runs = 0
    /\ rowsRead = 0
    /\ faults = 0

\* import_applications_from_csv is called: history is shifted, the bounds counted
Called(f) ==
    /\ pc = "idle"
    /\ runs < MaxRuns
    /\ rowsRead + Len(f.rows) <= MaxTotalRows
    /\ runs' = runs + 1
    /\ rowsRead' = rowsRead + Len(f.rows)
    /\ file' = f
    /\ prevFile' = file
    /\ prevOutcome' = outcome
    /\ pre' = db

\* lines 72-86: a required column is missing, ValueError
RejectCsv(f) ==
    LET columns == clean_column_names(f.columns)
    IN  /\ Called(f)
        /\ missing_columns(columns) # {}
        /\ faults < MaxFaults
        /\ faults' = faults + 1
        /\ outcome' = MissingColumnsError(missing_columns(columns), columns)
        /\ UNCHANGED <<db, clock, pc, df, i, district, created, updated, archived,
                       existing_applications, resolved, txn>>

\* lines 72-125: the frame is cleaned and deduplicated, the District is fetched or
\* made (autocommit: it is not part of the transaction), the transaction begins
BeginImport(f) ==
    LET columns == clean_column_names(f.columns)
        dist == District_get_or_create(db, DistrictName)
    IN  /\ Called(f)
        /\ missing_columns(columns) = {}
        /\ df' = CleanFrame(f.rows)
        /\ IF dist.error # ""
           THEN /\ outcome' = Failed(dist.error)
                /\ UNCHANGED <<db, pc, district, txn, i, created, updated, archived,
                               existing_applications, resolved>>
           ELSE /\ db' = dist.db
                /\ txn' = dist.db
                /\ district' = dist.id
                /\ pc' = "loop"
                /\ i' = 1
                /\ created' = 0 /\ updated' = 0 /\ archived' = 0
                /\ existing_applications' = {}
                /\ resolved' = <<>>
                /\ outcome' = NoOutcome
        /\ UNCHANGED <<clock, faults>>

\* leaving `with transaction.atomic()` by an exception: everything since its entry is undone
Rollback(e) ==
    /\ db' = txn
    /\ pc' = "idle"
    /\ outcome' = Failed(e)

\* lines 126-151: one row of df
UpsertRow ==
    /\ pc = "loop"
    /\ i <= Len(df)
    /\ LET u == Upsert(db, district, df[i], clock)
       IN  IF u.error # ""
           THEN /\ Rollback(u.error)
                /\ UNCHANGED <<i, created, updated, existing_applications, resolved>>
           ELSE /\ db' = u.db
                /\ existing_applications' = existing_applications \cup {u.pair}
                /\ resolved' = Append(resolved, u.pair)
                /\ created' = IF u.created_new THEN created + 1 ELSE created
                /\ updated' = IF u.created_new THEN updated ELSE updated + 1
                /\ i' = i + 1
                /\ UNCHANGED <<pc, outcome>>
    /\ clock' = clock + 1
    /\ UNCHANGED <<file, df, district, archived, txn, pre, prevFile, prevOutcome,
                   runs, rowsRead, faults>>

\* lines 154-178: the archive sweep, the commit and the summary
ArchiveSweep ==
    /\ pc = "loop"
    /\ i > Len(df)
    /\ LET now == clock
           ids == to_archive_ids(db, district, existing_applications)
       IN  /\ db' = [db EXCEPT !.applications = ArchiveUpdate(@, ids, now)]
           /\ archived' = Cardinality(ids)
           /\ outcome' = Succeeded([total_processed |-> Len(df), created |-> created,
                                    updated |-> updated, archived |-> Cardinality(ids)])
    /\ pc' = "idle"
    /\ clock' = clock + 1
    /\ UNCHANGED <<file, df, i, district, created, updated, existing_applications,
                   resolved, txn, pre, prevFile, prevOutcome, runs, rowsRead, faults>>

\* the database fails inside the transaction (connection lost, lock timeout, ...)
PersistenceError ==
    /\ pc = "loop"
    /\ faults < MaxFaults
    /\ faults' = faults + 1
    /\ Rollback("OperationalError")
    /\ clock' = clock + 1
    /\ UNCHANGED <<file, df, i, district, created, updated, archived,
                   existing_applications, resolved, txn, pre, prevFile, prevOutcome,
                   runs, rowsRead>>

\* the files of n rows; the headers other than the plain one are tried on the
\* short files
Headers(n) ==
    IF n = 0 THEN {Header} \cup BadHeaders
    ELSE IF n = 1 THEN GoodHeaders
    ELSE {Header}

Files(n) == {[columns |-> h, rows |-> rs] : h \in Headers(n), rs \in [1..n -> RawRows]}

Next ==
    \/ \E n \in 0..(MaxTotalRows - rowsRead) : \E f \in Files(n) : BeginImport(f)
    \/ \E n \in 0..(MaxTotalRows - rowsRead) : \E f \in Files(n) : RejectCsv(f)
    \/ UpsertRow
    \/ ArchiveSweep
    \/ PersistenceError

Spec == Init /\ [][Next]_vars

---------------------------------------------------------------------------
(* The importer on a database that serves a second district: District has any
   number of rows, a Student belongs to one of them and its student_number is
   unique within it only, a College belongs to none.  The other district has a
   student with the number of a student of the files, with one active and one
   archived application, to colleges the files name too. *)
OtherDistrictName == <<"O","t","h","e","r">>

OtherDistrictDb ==
    [districts |-> <<[name |-> OtherDistrictName]>>,
     students |-> <<[district |-> 1, student_number |-> <<"1">>]>>,
     colleges |-> <<[name |-> <<"X">>, ceeb_code |-> <<"A","7">>],
                    [name |-> <<"X">>, ceeb_code |-> <<"A","8">>]>>,
     applications |->
        <<[student |-> 1, college |-> 1,
           application_result |-> <<"A">>, application_type |-> <<"E">>,
           attending |-> PyTrue, is_archived |-> FALSE, archived_at |-> NullTime,
           created_on |-> 1, updated_on |-> 1],
          [student |-> 1, college |-> 2,
           application_result |-> None, application_type |-> None,
           attending |-> None, is_archived |-> TRUE, archived_at |-> 2,
           created_on |-> 1, updated_on |-> 1]>>]

InitDistricts ==
    /\ db = OtherDistrictDb
    /\ clock = 3
    /\ pc = "idle"
    /\ file = NoFile
    /\ df = <<>>
    /\ i = 1
    /\ district = 0
    /\ created = 0 /\ updated = 0 /\ archived = 0
    /\ existing_applications = {}
    /\ resolved = <<>>
    /\ txn = OtherDistrictDb
    /\ pre = OtherDistrictDb
    /\ outcome = NoOutcome
    /\ prevFile = NoFile
    /\ prevOutcome = NoOutcome
    /\ runs = 0
    /\ rowsRead = 0
    /\ faults = 0

SpecDistricts == InitDistricts /\ [][Next]_vars

---------------------------------------------------------------------------
(* pd.read_csv (line 72) with its defaults: every cell of the file is text; an
   empty cell is missing (NaN); a column whose cells are all integer literals is
   read as int64, and as float64 when some of its cells are missing, since an
   integer column has no place for NaN; any other column stays text.  A number
   of the DataFrame is written here as str() writes it, which is how every
   consumer of the importer (astype(str), str(value)) takes it: 1 is "1", 1.0 is
   "1.0".  The files below hold no boolean words and no other spelling of a
   number or of a missing cell. *)
Digits == {"0", "1", "2", "3", "4", "5", "6", "7", "8", "9"}

IsIntegerText(s) == s # <<>> /\ \A k \in DOMAIN s : s[k] \in Digits

RECURSIVE DropLeadingZeros(_)
DropLeadingZeros(s) == IF Len(s) > 1 /\ s[1] = "0" THEN DropLeadingZeros(Tail(s)) ELSE s

\* the dtype pandas infers for column col of the text rows
dtype(rows, col) ==
    LET cells == {rows[k][col] : k \in DOMAIN rows}
        present == cells \ {<<>>}
    IN  IF present # {} /\ \A c \in present : IsIntegerText(c)
        THEN IF <<>> \in cells THEN "float64" ELSE "int64"
        ELSE "object"

\* the value of the DataFrame for one cell of a column of that dtype
CellValue(cell, type) ==
    IF cell = <<>> THEN NaN
    ELSE IF type = "int64" THEN DropLeadingZeros(cell)
    ELSE IF type = "float64" THEN DropLeadingZeros(cell) \o <<".", "0">>
    ELSE cell

read_csv(t) ==
    [columns |-> t.columns,
     rows |-> [k \in DOMAIN t.rows |->
                  [col \in DOMAIN t.rows[k] |->
                      CellValue(t.rows[k][col], dtype(t.rows, col))]],
     text |-> t.rows]

\* The files of the attending column: row k is of student Sk, the college is the
\* same in every row, the attending cell is any of AttendingTexts
AttendingTexts ==
    {<<"1">>, <<"0">>, <<>>, <<" ","Y","e","s">>, <<"N","O"," ">>,
     <<"u","n","k","n","o","w","n">>}

StudentOfRow(k) == IF k = 1 THEN <<"S","1">> ELSE IF k = 2 THEN <<"S","2">> ELSE <<"S","3">>

CsvRow(k, a) ==
    [student_number |-> StudentOfRow(k), ceeb_code |-> <<"A","7">>,
     college_name |-> <<"X">>, application_result |-> <<"a","c","c","e","p","t","e","d">>,
     application_type |-> <<>>, attending |-> a]

CsvTexts(n) ==
    {[columns |-> Header, rows |-> [k \in 1..n |-> CsvRow(k, as[k])]] :
        as \in [1..n -> AttendingTexts]}

NextAttending ==
    \/ \E n \in 0..Min({MaxCsvRows, MaxTotalRows - rowsRead}) :
          \E t \in CsvTexts(n) : BeginImport(read_csv(t))
    \/ UpsertRow
    \/ ArchiveSweep

SpecAttending == Init /\ [][NextAttending]_vars

---------------------------------------------------------------------------
(* Vocabulary of the properties *)
Returned == pc = "idle" /\ outcome.status = "ok"        \* the last run returned its summary
Raised_ == pc = "idle" /\ outcome.status = "error"      \* the last run raised

PairOf(app) == <<app.student, app.college>>

\* the applications of table apps that the run found (pre) and that belong to `dist`
OfDistrict(d, dist) ==
    {k \in DOMAIN d.applications : d.students[d.applications[k].student].district = dist}

\* rows that exist now and did not before the run
NewApps == {k \in DOMAIN db.applications : k \notin DOMAIN pre.applications}

\* rows the run turned from active to archived
ArchivedByRun ==
    {k \in DOMAIN pre.applications :
        ~pre.applications[k].is_archived /\ db.applications[k].is_archived}

---------------------------------------------------------------------------
\* C1: in every reachable state, also inside a run and after a failed one, no two
\* CollegeApplication rows have the same (student_id, college_id).
Thm_C1_UniquePair ==
    \A j, k \in DOMAIN db.applications :
        j # k => PairOf(db.applications[j]) # PairOf(db.applications[k])

\* a pair that was archived is in the file again and has been upserted
Wit_C1_PairSeenAgain ==
    /\ Returned
    /\ \E k \in DOMAIN pre.applications :
          pre.applications[k].is_archived /\ PairOf(pre.applications[k]) \in existing_applications

\* C2: after a run that raised, the four tables are what they were before the run.
Cex_C2_AllOrNothing == Raised_ => db = pre

\* C3: after a successful import the active applications of the run's district are
\* exactly the touched pairs; what was active before and is not touched is archived
\* with a timestamp; everything the run archived has one and the same timestamp.
Thm_C3_ArchiveByOmission ==
    Returned =>
        /\ {PairOf(db.applications[k]) : k \in ActiveOfDistrict(db, district)}
             = existing_applications
        /\ \A k \in OfDistrict(pre, district) :
              (~pre.applications[k].is_archived
                 /\ PairOf(pre.applications[k]) \notin existing_applications)
              => /\ db.applications[k].is_archived
                 /\ db.applications[k].archived_at # NullTime
        /\ \A j, k \in ArchivedByRun :
              db.applications[j].archived_at = db.applications[k].archived_at

\* one run archives two applications and keeps a third
Wit_C3_TwoArchived ==
    /\ Returned
    /\ outcome.archived >= 2

\* the rest of C2: whatever a failed run wrote to students, colleges and
\* applications is undone; only the districts table may differ
Lem_C2_TransactionRolledBack ==
    Raised_ => /\ db.students = pre.students
               /\ db.colleges = pre.colleges
               /\ db.applications = pre.applications

---------------------------------------------------------------------------
\* the values an application takes from a cleaned row
SameValues(app, row) ==
    /\ app.application_result = Defaults(row).application_result
    /\ app.application_type = Defaults(row).application_type
    /\ app.attending = Defaults(row).attending

\* the columns a run leaves alone when it changes nothing
SameState(a, b) ==
    /\ a.application_result = b.application_result
    /\ a.application_type = b.application_type
    /\ a.attending = b.attending
    /\ a.is_archived = b.is_archived
    /\ a.archived_at = b.archived_at

\* the last run re-imported the file of the run before it
SameFileAgain == runs >= 2 /\ file = prevFile

SecondRunChangesNothing ==
    /\ outcome.created = 0
    /\ outcome.updated = outcome.total_processed
    /\ outcome.archived = 0
    /\ db.students = pre.students
    /\ db.colleges = pre.colleges
    /\ DOMAIN db.applications = DOMAIN pre.applications
    /\ \A k \in DOMAIN db.applications : SameState(db.applications[k], pre.applications[k])

\* C4: every import of a file with all required columns succeeds (the database
\* not failing), and when the same file is imported a second time right after a
\* successful import, the second run returns created=0, updated=N, archived=0 and
\* changes no student, no college and no state of an application.
Cex_C4_Idempotence ==
    (pc = "idle" /\ runs >= 1 /\ file.columns \in GoodHeaders
       /\ outcome.error # "OperationalError")
    => /\ outcome.status = "ok"
       /\ (SameFileAgain /\ prevOutcome.status = "ok") => SecondRunChangesNothing

\* the rest of C4: when both imports of the same file return, the second changes nothing
Lem_C4_SecondRunWhenBothReturn ==
    (Returned /\ SameFileAgain /\ prevOutcome.status = "ok") => SecondRunChangesNothing

---------------------------------------------------------------------------
ExpectedMissing(columns) ==
    IF columns = NoCeebHeader THEN {ceeb_code}
    ELSE IF columns = NoCeebNoAttendingHeader THEN {ceeb_code, attending}
    ELSE {}

\* C5: a file whose header lacks a required column is refused with a ValueError
\* that names exactly the missing columns (and the columns found), the tables are
\* untouched and the transaction is never entered; a header that has every
\* required column, however spelled, is not refused.
Thm_C5_MissingColumns ==
    /\ file.columns \in BadHeaders =>
          /\ pc = "idle"
          /\ outcome.status = "error" /\ outcome.error = "ValueError"
          /\ outcome.missing = ExpectedMissing(file.columns)
          /\ outcome.found = file.columns
          /\ db = pre
    /\ file.columns \in GoodHeaders => outcome.error # "ValueError"

\* a file without ceeb_code and attending is refused by a database that holds rows
Wit_C5_TwoColumnsMissing ==
    /\ Raised_
    /\ file.columns = NoCeebNoAttendingHeader
    /\ pre.applications # <<>>

---------------------------------------------------------------------------
\* the rows of the file as the importer cleans them, before deduplication
Cleaned == [k \in DOMAIN file.rows |-> CleanRow(file.rows[k])]

SameCeebGroup(j, k) ==
    /\ Cleaned[j].student_number = Cleaned[k].student_number
    /\ Cleaned[k].ceeb_code # <<>>
    /\ Cleaned[j].ceeb_code = Cleaned[k].ceeb_code

\* the applications of the student numbered sn at the college of code ceeb
AppsByNumberAndCeeb(sn, ceeb) ==
    {a \in DOMAIN db.applications :
        /\ db.students[db.applications[a].student].student_number = sn
        /\ db.colleges[db.applications[a].college].ceeb_code = ceeb}

\* C6: when several rows of the file have the same student_number and the same
\* non-empty ceeb_code, then after the import exactly one application exists for
\* that student and college and it has the values of the last of these rows.
Cex_C6_LastOccurrenceWins ==
    Returned =>
        \A k \in DOMAIN Cleaned :
            ((\E j \in DOMAIN Cleaned : j < k /\ SameCeebGroup(j, k))
               /\ ~(\E j \in DOMAIN Cleaned : j > k /\ SameCeebGroup(j, k)))
            => LET apps == AppsByNumberAndCeeb(Cleaned[k].student_number, Cleaned[k].ceeb_code)
               IN  /\ Cardinality(apps) = 1
                   /\ \A a \in apps : SameValues(db.applications[a], Cleaned[k])

---------------------------------------------------------------------------
\* rows j < k of one student, without a code, whose names differ in letter case only
NameVariants(j, k) ==
    /\ j < k
    /\ Cleaned[j].student_number = Cleaned[k].student_number
    /\ Cleaned[j].ceeb_code = <<>> /\ Cleaned[k].ceeb_code = <<>>
    /\ Cleaned[j].college_name # Cleaned[k].college_name
    /\ lower(Cleaned[j].college_name) = lower(Cleaned[k].college_name)

FirstOfGroup(j) == \A m \in DOMAIN Cleaned : m < j => DedupKey(Cleaned[m]) # DedupKey(Cleaned[j])
LastOfGroup(k) == \A m \in DOMAIN Cleaned : m > k => DedupKey(Cleaned[m]) # DedupKey(Cleaned[k])

\* the positions of df that hold the group of the cleaned row r
Survivors(r) == {p \in DOMAIN df : DedupKey(df[p]) = DedupKey(r)}

\* the application of the pair that the row at position p of df resolved to
AppOfRow(p) ==
    db.applications[CHOOSE a \in DOMAIN db.applications :
                        PairOf(db.applications[a]) = resolved[p]]

OverwrittenLater(p) == \E q \in DOMAIN resolved : q > p /\ resolved[q] = resolved[p]

\* C7 as claimed: the rows of such a group are one application, its College has the
\* name of the FIRST variant of the file and the application has the last row's values.
Cex_C7_FirstNameKept ==
    Returned =>
        \A j, k \in DOMAIN Cleaned :
            (NameVariants(j, k) /\ FirstOfGroup(j) /\ LastOfGroup(k))
            => /\ Cardinality(Survivors(Cleaned[k])) = 1
               /\ \A p \in Survivors(Cleaned[k]) :
                     /\ db.colleges[resolved[p][2]].name = Cleaned[j].college_name
                     /\ SameValues(AppOfRow(p), Cleaned[k])

\* C7 as amended: the rows of such a group are one row of df, the last of the group;
\* the College it resolves to has the name of the LAST variant; the application of
\* the pair has the last row's values, unless a later row of df resolved to the
\* same pair and overwrote them.
Thm_C7_LastNameKept ==
    Returned =>
        \A j, k \in DOMAIN Cleaned :
            (NameVariants(j, k) /\ FirstOfGroup(j) /\ LastOfGroup(k))
            => /\ Cardinality(Survivors(Cleaned[k])) = 1
               /\ \A p \in Survivors(Cleaned[k]) :
                     /\ df[p] = Cleaned[k]
                     /\ db.colleges[resolved[p][2]].name = Cleaned[k].college_name
                     /\ db.colleges[resolved[p][2]].name # Cleaned[j].college_name
                     /\ db.students[resolved[p][1]].student_number = Cleaned[k].student_number
                     /\ ~OverwrittenLater(p) => SameValues(AppOfRow(p), Cleaned[k])

\* a file with the two spellings of a name has been imported
Wit_C7_TwoSpellings ==
    /\ Returned
    /\ \E j, k \in DOMAIN Cleaned : NameVariants(j, k) /\ FirstOfGroup(j) /\ LastOfGroup(k)

---------------------------------------------------------------------------
\* the applications that were archived when the run began and whose pair the run touched
Revived ==
    {k \in DOMAIN pre.applications :
        pre.applications[k].is_archived
          /\ PairOf(pre.applications[k]) \in existing_applications}

\* the last row of df that resolved to the pair
LastRowOf(pair) == df[Max({p \in DOMAIN resolved : resolved[p] = pair})]

\* C8: an application archived by an earlier run whose pair is in a later successful
\* import is the same row afterwards (no row is added for the pair), is active with
\* archived_at NULL, has the values of the row of the file, and is counted as
\* updated: created counts the added rows only.
Thm_C8_Revival ==
    Returned =>
        /\ \A k \in Revived :
              /\ PairOf(db.applications[k]) = PairOf(pre.applications[k])
              /\ AppsOfPair(db.applications, pre.applications[k].student,
                            pre.applications[k].college) = {k}
              /\ db.applications[k].created_on = pre.applications[k].created_on
              /\ ~db.applications[k].is_archived
              /\ db.applications[k].archived_at = NullTime
              /\ SameValues(db.applications[k], LastRowOf(PairOf(pre.applications[k])))
        /\ outcome.created = Cardinality(NewApps)
        /\ outcome.updated >= Cardinality(Revived)

\* an archived application comes back with other values than it had
Wit_C8_Revived ==
    /\ Returned
    /\ \E k \in Revived :
          db.applications[k].application_result # pre.applications[k].application_result

---------------------------------------------------------------------------
\* C9: in a run that returns, no two rows of df resolved to the same
\* (student, college) pair: total_processed is the size of the touched set.
Cex_C9_OneUpsertPerPair ==
    Returned =>
        /\ \A p, q \in DOMAIN resolved : p # q => resolved[p] # resolved[q]
        /\ outcome.total_processed = Cardinality(existing_applications)

\* C10: created is the number of rows added, updated the number of rows that
\* existed before the run and were overwritten by it, archived the number of rows
\* turned from active to archived, and created + updated = total_processed.
Cex_C10_SummaryAccuracy ==
    Returned =>
        /\ outcome.created = Cardinality(NewApps)
        /\ outcome.updated =
             Cardinality({k \in DOMAIN pre.applications :
                             PairOf(pre.applications[k]) \in existing_applications})
        /\ outcome.archived = Cardinality(ArchivedByRun)
        /\ outcome.created + outcome.updated = outcome.total_processed

\* the rest of C10: every count but updated is right
Lem_C10_OtherCounts ==
    Returned =>
        /\ outcome.created = Cardinality(NewApps)
        /\ outcome.archived = Cardinality(ArchivedByRun)
        /\ outcome.created + outcome.updated = outcome.total_processed
        /\ outcome.total_processed = Len(df)

---------------------------------------------------------------------------
\* C12: in every reachable state no two College rows have the same non-empty
\* ceeb_code, and no two College rows without a code have the same name.
Thm_C12_CollegeIdentity ==
    \A j, k \in DOMAIN db.colleges :
        j # k =>
            /\ db.colleges[j].ceeb_code # <<>>
                 => db.colleges[j].ceeb_code # db.colleges[k].ceeb_code
            /\ (db.colleges[j].ceeb_code = <<>> /\ db.colleges[k].ceeb_code = <<>>)
                 => db.colleges[j].name # db.colleges[k].name

\* a code that the store holds under one name has come again under another name,
\* in a store that also holds a college without a code
Wit_C12_CodeSeenAgain ==
    /\ Returned
    /\ \E p \in DOMAIN df :
          /\ df[p].ceeb_code # <<>>
          /\ db.colleges[resolved[p][2]].name # df[p].college_name
    /\ \E c \in DOMAIN db.colleges : db.colleges[c].ceeb_code = <<>>

\* C13: entity resolution never raises: no run ends in MultipleObjectsReturned, so
\* every import of a file with all required columns returns its summary unless the
\* database itself fails.
Cex_C13_ResolutionNeverRaises == outcome.error # "MultipleObjectsReturned"

---------------------------------------------------------------------------
\* the group of a normalized row: its student_number and its ceeb_code or, without
\* a code, its lower-cased college_name
GroupKey(r) ==
    <<r.student_number, IF r.ceeb_code = <<>> THEN lower(r.college_name) ELSE r.ceeb_code>>

\* the position in the file of the last row of group g
LastInGroup(g) == Max({k \in DOMAIN Cleaned : GroupKey(Cleaned[k]) = g})

\* C14: df holds exactly one row for every group of the file's rows, that row is
\* the last row of its group in file order, and the rows of df are in the order
\* they have in the file.
Thm_C14_Deduplication ==
    (runs >= 1 /\ file.columns \in GoodHeaders) =>
        /\ {GroupKey(df[p]) : p \in DOMAIN df} = {GroupKey(Cleaned[k]) : k \in DOMAIN Cleaned}
        /\ \A p, q \in DOMAIN df : p # q => GroupKey(df[p]) # GroupKey(df[q])
        /\ \A p \in DOMAIN df : df[p] = Cleaned[LastInGroup(GroupKey(df[p]))]
        /\ \A p, q \in DOMAIN df :
              p < q => LastInGroup(GroupKey(df[p])) < LastInGroup(GroupKey(df[q]))

\* a file of three rows whose first row is dropped for a later row of its group
Wit_C14_FirstRowDropped ==
    /\ pc = "loop"
    /\ Len(file.rows) = 3
    /\ Len(df) = 2
    /\ df[1] # Cleaned[1]
    /\ Cleaned[1] # Cleaned[LastInGroup(GroupKey(Cleaned[1]))]

---------------------------------------------------------------------------
\* the rows that table t had when the run began are rows of db, as they were
KeptAsTheyWere(t) ==
    /\ Len(pre[t]) <= Len(db[t])
    /\ \A k \in DOMAIN pre[t] : db[t][k] = pre[t][k]

\* C15: in every state of a run, every District, Student and College row that
\* existed when the run began still exists with every field as it was, and every
\* Application row that existed still exists for the same student and college.
Thm_C15_NothingDeletedOrRewritten ==
    /\ KeptAsTheyWere("districts")
    /\ KeptAsTheyWere("students")
    /\ KeptAsTheyWere("colleges")
    /\ Len(pre.applications) <= Len(db.applications)
    /\ \A k \in DOMAIN pre.applications :
          PairOf(db.applications[k]) = PairOf(pre.applications[k])

\* a run has met a College of an earlier run by its code, under another name
Wit_C15_OtherNameForKnownCode ==
    /\ Returned
    /\ \E p \in DOMAIN df :
          /\ df[p].ceeb_code # <<>>
          /\ resolved[p][2] \in DOMAIN pre.colleges
          /\ pre.colleges[resolved[p][2]].ceeb_code = df[p].ceeb_code
          /\ pre.colleges[resolved[p][2]].name # df[p].college_name

\* C15, step by step: a step that is not a rollback leaves every District, Student
\* and College row it finds as it is, the rows the run itself inserted included.
Lem_C15_RowsOfTheRunToo ==
    [][\/ db' = txn
       \/ \A t \in {"districts", "students", "colleges"} :
             \A k \in DOMAIN db[t] : k \in DOMAIN db'[t] /\ db'[t][k] = db[t][k]]_vars

---------------------------------------------------------------------------
\* the College rows of table d without a code that have the name of row r
NamelessOfName(d, r) ==
    {c \in DOMAIN d.colleges :
        d.colleges[c].ceeb_code = <<>> /\ d.colleges[c].name = r.college_name}

\* the row of df that is next has a code that no College has, and a College
\* without a code has its name
CodeComesLater ==
    /\ pc = "loop" /\ i <= Len(df)
    /\ df[i].ceeb_code # <<>>
    /\ \A c \in DOMAIN db.colleges : db.colleges[c].ceeb_code # df[i].ceeb_code
    /\ NamelessOfName(db, df[i]) # {}

\* C16: when the importer processes a row with a code that no College has while
\* a College without a code has the row's name, it inserts a second College row
\* with that name and the code and resolves the row to it; the College without a
\* code and every Application there was, those of that College included, are as
\* they were.
Thm_C16_SoftDuplication ==
    [][(CodeComesLater /\ i' = i + 1) =>
          /\ Len(db'.colleges) = Len(db.colleges) + 1
          /\ db'.colleges[Len(db'.colleges)] =
                [name |-> df[i].college_name, ceeb_code |-> df[i].ceeb_code]
          /\ resolved'[i][2] = Len(db'.colleges)
          /\ \A c \in DOMAIN db.colleges : db'.colleges[c] = db.colleges[c]
          /\ \A k \in DOMAIN db.applications : db'.applications[k] = db.applications[k]]_vars

\* after a run there are a College without a code and a younger College of the
\* same name with a code, each with an Application of its own
Wit_C16_TwoCollegesOfOneName ==
    /\ Returned
    /\ \E c1, c2 \in DOMAIN db.colleges :
          /\ c1 < c2
          /\ db.colleges[c1].ceeb_code = <<>>
          /\ db.colleges[c2].ceeb_code # <<>>
          /\ db.colleges[c1].name = db.colleges[c2].name
          /\ \E k \in DOMAIN db.applications : db.applications[k].college = c1
          /\ \E k \in DOMAIN db.applications : db.applications[k].college = c2

---------------------------------------------------------------------------
\* C18: in every reachable state, also inside a run and after a failed one, an
\* Application is archived if and only if its archived_at is not NULL.
Thm_C18_FlagAndTimestamp ==
    \A k \in DOMAIN db.applications :
        db.applications[k].is_archived <=> db.applications[k].archived_at # NullTime

\* one run has archived an application and brought another back from the archive
Wit_C18_ArchivedAndRevived ==
    /\ Returned
    /\ ArchivedByRun # {}
    /\ \E k \in Revived : ~db.applications[k].is_archived

---------------------------------------------------------------------------
\* the applications that were archived when the run began and whose pair no row
\* of the file resolved to
StillAbsent ==
    {k \in DOMAIN pre.applications :
        pre.applications[k].is_archived
          /\ PairOf(pre.applications[k]) \notin existing_applications}

\* C19: after a successful run an application that was archived when the run began
\* and whose pair is not in the file is, field by field, as it was (archived, with
\* the archived_at it had), and the archived count of the summary counts only the
\* applications that were active when the run began.
Thm_C19_ArchivedStaysAsItWas ==
    Returned =>
        /\ \A k \in StillAbsent : db.applications[k] = pre.applications[k]
        /\ outcome.archived = Cardinality(ArchivedByRun)
        /\ ArchivedByRun \cap StillAbsent = {}

\* a run that archives an application finds another one already archived, whose
\* pair is again not in the file
Wit_C19_AbsentAgain ==
    /\ Returned
    /\ StillAbsent # {}
    /\ outcome.archived >= 1

---------------------------------------------------------------------------
\* the applications of table d whose student is of another district than the
\* importer's
OfOtherDistricts(d) ==
    {k \in DOMAIN d.applications :
        d.districts[d.students[d.applications[k].student].district].name # DistrictName}

\* the file of the run names the student number and the college code of
\* application k of another district
PairInFile(k) ==
    \E p \in DOMAIN df :
        /\ df[p].student_number = db.students[db.applications[k].student].student_number
        /\ df[p].ceeb_code = db.colleges[db.applications[k].college].ceeb_code

\* C17: in every state reachable from a database that holds applications of
\* another district, also inside a run and after a failed one, the applications
\* of other districts are those there were at the start, each with every field
\* as it was.
Thm_C17_OtherDistrictsUntouched ==
    /\ OfOtherDistricts(db) = OfOtherDistricts(OtherDistrictDb)
    /\ \A k \in OfOtherDistricts(OtherDistrictDb) :
          db.applications[k] = OtherDistrictDb.applications[k]

\* a run has imported the active pair of the other district for its own student,
\* and the next run, whose file has no row of it, has archived that application
Wit_C17_SamePairInAndOut ==
    /\ Returned
    /\ outcome.archived >= 1
    /\ \A k \in OfOtherDistricts(db) : ~PairInFile(k)
    /\ \E a \in ArchivedByRun : \E k \in OfOtherDistricts(db) :
          /\ ~OtherDistrictDb.applications[k].is_archived
          /\ db.applications[a].college = db.applications[k].college
          /\ db.students[db.applications[a].student].student_number
               = db.students[db.applications[k].student].student_number

---------------------------------------------------------------------------
\* the table of the tri-state parser, on the text of a cell of the file
AttendingOfText(text) ==
    LET s == lower(strip(text))
    IN  IF s \in {<<"1">>, <<"t","r","u","e">>, <<"y","e","s">>} THEN PyTrue
        ELSE IF s \in {<<"0">>, <<"f","a","l","s","e">>, <<"n","o">>} THEN PyFalse
        ELSE None

\* the attending that is stored for row k of the file
StoredAttending(k) == AppOfRow(k).attending

\* C11: after a successful import of a file, the attending that is stored for
\* each of its rows is True for a cell "1"/"true"/"yes", False for a cell
\* "0"/"false"/"no" (trimmed, in any case) and None for a missing cell and any
\* other cell.
Cex_C11_TriState ==
    Returned =>
        \A k \in DOMAIN file.text : StoredAttending(k) = AttendingOfText(file.text[k].attending)

\* C11, what holds: the stored attending follows the table for every file whose
\* attending column pandas does not read as float64, that is unless its cells
\* are integer literals and missing cells together; and the import of the same
\* file again stores the same values.
Lem_C11_TriStateOfOtherColumns ==
    Returned =>
        /\ dtype(file.text, "attending") # "float64"
             => \A k \in DOMAIN file.text :
                   StoredAttending(k) = AttendingOfText(file.text[k].attending)
        /\ (file = prevFile /\ prevOutcome.status = "ok")
             => \A k \in DOMAIN pre.applications :
                   db.applications[k].attending = pre.applications[k].attending

====
